---- MODULE Spec2Model ----
(***************************************************************************)
(* Model of src/threadnames.cpp: the per-thread name state                 *)
(* (SetThreadName, ThreadGetInternalName, SetInternalName, ThreadRename,   *)
(* ThreadSetInternalName) and the pool barrier util::RenameThreadPool.     *)
(*                                                                         *)
(* The thread pool (ctpl::thread_pool) is an external collaborator: its    *)
(* queue, its size() and its workers' dequeue loop are modelled from the   *)
(* specification's description of it (section 6 and the glossary).         *)
(***************************************************************************)
EXTENDS Integers, Sequences, FiniteSets, TLC

\* ------------------------------------------------------------------ bounds
MaxPool == 2        \* largest number of worker slots the pool ever has
MaxCalls == 2       \* number of RenameThreadPool calls made in a behaviour
MaxResize == 1      \* number of times the pool's size changes
MaxSpurious == 1    \* number of condition-variable waits that return unnotified

\* --------------------------------------------------------------- constants
\* "Only the first 15 characters are used (16 - NUL terminator)"
OsNameMax == 15

Workers == 0 .. (MaxPool - 1)       \* worker slots = ctpl thread ids
Caller == MaxPool                   \* the thread that calls RenameThreadPool
Threads == 0 .. MaxPool
NoWorker == -1
Sessions == 1 .. MaxCalls

\* base names handed to RenameThreadPool; the second one is longer than the
\* operating system's limit once the "-<index>" suffix is added
BaseNames == {"net", "raptoreum-sched"}
\* names handed directly to ThreadRename / ThreadSetInternalName
Names == {"", "main", "raptoreum-scheduler-main"}

NoTask == [s |-> 0, i |-> 0]

VARIABLES
    build,          \* the build's configuration macros (HAVE_THREAD_LOCAL, PR_SET_NAME)
    g_thread_name,  \* thread_local std::string g_thread_name, one per thread
    osName,         \* the process-level name of each thread
    size,           \* tp.size()
    queue,          \* the pool's task queue
    pc,             \* where each worker thread is
    task,           \* the rename task a worker dequeued last
    mtx,            \* owner of each call's *mutex
    doneCnt,        \* std::atomic<int> doneCnt of the call in progress
    futures,        \* std::map<int, std::future<void>> futures of the call in progress
    cpc,            \* where the calling thread is in RenameThreadPool
    pos,            \* position of the final loop in futures
    baseName,       \* the baseName of every call made so far
    log,            \* what LogPrintf has been given
    ran,            \* history: the rename tasks whose ThreadRename each worker executed
    resizes,        \* history: number of size changes so far
    spurious,       \* history: number of unnotified wake-ups so far
    named,          \* history: the threads that have set their internal name
    renamed,        \* history: the rename tasks whose ThreadRename has completed
    entry           \* history: the pool's size and resize count when the call began

vars == <<build, g_thread_name, osName, size, queue, pc, task, mtx, doneCnt,
          futures, cpc, pos, baseName, log, ran, resizes, spurious, named,
          renamed, entry>>

nameVars == <<g_thread_name, osName, named>>
poolVars == <<size, queue, resizes>>
callVars == <<doneCnt, futures, cpc, pos, baseName, log, entry>>
histVars == <<ran, renamed>>

\* tl: HAVE_THREAD_LOCAL is defined; prctl: the platform has a set-name call
Builds == [tl : BOOLEAN, prctl : BOOLEAN]
\* the configuration the pool barrier is studied in
PoolBuild == [tl |-> TRUE, prctl |-> TRUE]

\* the call in progress (or the last one made): its number
calls == Len(baseName)

\* ------------------------------------------------------- ThreadIdentity

Truncate(n, max) == IF Len(n) > max THEN SubSeq(n, 1, max) ELSE n

\* static void SetThreadName(const char* name): the new process-level names
SetThreadName(t, n) ==
    IF build.prctl THEN [osName EXCEPT ![t] = Truncate(n, OsNameMax)]
    ELSE osName

\* util::ThreadGetInternalName()
ThreadGetInternalName(t) == IF build.tl THEN g_thread_name[t] ELSE ""

\* a SetInternalName that cuts the name the way the operating system does
SetInternalName_Truncating(t, n) ==
    IF build.tl THEN [g_thread_name EXCEPT ![t] = Truncate(n, OsNameMax)]
    ELSE g_thread_name

\* a SetInternalName that writes one name shared by all threads of the process
SetInternalName_Shared(t, n) ==
    IF build.tl THEN [u \in Threads |-> n] ELSE g_thread_name

\* static void SetInternalName(std::string name): the new internal names
SetInternalName(t, n) ==
    IF build.tl THEN [g_thread_name EXCEPT ![t] = n] ELSE g_thread_name

\* util::ThreadRename(const char* name)
ThreadRename(t, n) ==
    /\ osName' = SetThreadName(t, n)
    /\ g_thread_name' = SetInternalName(t, n)
    /\ named' = named \cup {t}

\* util::ThreadSetInternalName(const char* name)
ThreadSetInternalName(t, n) ==
    /\ g_thread_name' = SetInternalName(t, n)
    /\ named' = named \cup {t}
    /\ UNCHANGED osName

\* a task that formats the lambda's threadId argument instead of its capture i
TaskName_ByThread(base, i, threadId) == base \o "-" \o ToString(threadId)

\* strprintf("%s-%d", baseName, i)
TaskName(base, i, threadId) == base \o "-" \o ToString(i)

\* ------------------------------------------------------------------ Init

\* threads that have never set a name read the default-constructed string; the
\* pool has its workers, each idle or in the middle of some other task
InitRest ==
    /\ g_thread_name = [t \in Threads |-> ""]
    /\ osName = [t \in Threads |-> ""]
    /\ size \in 1 .. MaxPool
    /\ queue = <<>>
    /\ pc \in [Workers -> {"none", "idle", "busy"}]
    /\ \A w \in Workers : (pc[w] = "none") <=> (w >= size)
    /\ task = [w \in Workers |-> NoTask]
    /\ mtx = [s \in Sessions |-> NoWorker]
    /\ doneCnt = 0
    /\ futures = <<>>
    /\ cpc = "idle"
    /\ pos = 0
    /\ baseName = <<>>
    /\ log = <<>>
    /\ ran = [w \in Workers |-> {}]
    /\ resizes = 0
    /\ spurious = 0
    /\ named = {}
    /\ renamed = {}
    /\ entry = [size |-> 0, resizes |-> 0]

Init == build = PoolBuild /\ InitRest

\* ---------------------------------------------------------- the caller

\* cond->notify_all() of call s: every worker waiting on that condition wakes
NotifyAll(s) ==
    [w \in Workers |->
        IF pc[w] = "waiting" /\ task[w].s = s THEN "woken" ELSE pc[w]]

\* entry: cond, mutex, doneCnt(0) and futures are created
Enter(b) ==
    /\ cpc = "idle"
    /\ calls < MaxCalls
    /\ baseName' = Append(baseName, b)
    /\ entry' = [size |-> size, resizes |-> resizes]
    /\ doneCnt' = 0
    /\ futures' = <<>>
    /\ pos' = 0
    /\ cpc' = "submit"
    /\ UNCHANGED <<build, nameVars, poolVars, pc, task, mtx, log, histVars, spurious>>

\* a submission loop bounded by the pool's size when the call began
Submit_Snapshot ==
    /\ cpc = "submit"
    /\ Len(futures) < entry.size
    /\ queue' = Append(queue, [s |-> calls, i |-> Len(futures)])
    /\ futures' = Append(futures, "pending")
    /\ UNCHANGED <<build, nameVars, size, resizes, pc, task, mtx, doneCnt, cpc,
                   pos, baseName, entry, log, histVars, spurious>>

\* one iteration of  for (int i = 0; i < tp.size(); i++) futures[i] = tp.push(...)
Submit ==
    /\ cpc = "submit"
    /\ Len(futures) < size
    /\ queue' = Append(queue, [s |-> calls, i |-> Len(futures)])
    /\ futures' = Append(futures, "pending")
    /\ UNCHANGED <<build, nameVars, size, resizes, pc, task, mtx, doneCnt, cpc,
                   pos, baseName, entry, log, histVars, spurious>>

\* the for loop's condition is false
SubmitDone ==
    /\ cpc = "submit"
    /\ ~(Len(futures) < size)
    /\ cpc' = "sleep"
    /\ UNCHANGED <<build, nameVars, poolVars, pc, task, mtx, doneCnt, futures,
                   pos, baseName, entry, log, histVars, spurious>>

\* UninterruptibleSleep(10ms) in the do-while
Sleep ==
    /\ cpc = "sleep"
    /\ cpc' = "check"
    /\ UNCHANGED <<build, nameVars, poolVars, pc, task, mtx, doneCnt, futures,
                   pos, baseName, entry, log, histVars, spurious>>

\* a loop condition that stops polling one rename short of either bound
PollAgain_OneShort == doneCnt + 1 < Len(futures) /\ doneCnt + 1 < size

\* while (doneCnt < futures.size() && doneCnt < tp.size())
PollAgain == doneCnt < Len(futures) /\ doneCnt < size

Check ==
    /\ cpc = "check"
    /\ cpc' = IF PollAgain THEN "sleep" ELSE "notify"
    /\ UNCHANGED <<build, nameVars, poolVars, pc, task, mtx, doneCnt, futures,
                   pos, baseName, entry, log, histVars, spurious>>

\* cond->notify_all() after the poll loop
Release ==
    /\ cpc = "notify"
    /\ pc' = NotifyAll(calls)
    /\ cpc' = "final"
    /\ pos' = 0
    /\ UNCHANGED <<build, nameVars, poolVars, task, mtx, doneCnt, futures,
                   baseName, entry, log, histVars, spurious>>

\* a final loop that moves on without looking at what wait_for returned
FinalReady_Unchecked ==
    /\ cpc = "final"
    /\ pos < Len(futures)
    /\ pos' = pos + 1
    /\ UNCHANGED <<build, nameVars, poolVars, pc, task, mtx, doneCnt, futures,
                   cpc, baseName, entry, log, histVars, spurious>>

\* final loop: the future at pos is ready within the 2000 ms
FinalReady ==
    /\ cpc = "final"
    /\ pos < Len(futures)
    /\ futures[pos + 1] # "pending"
    /\ pos' = pos + 1
    /\ UNCHANGED <<build, nameVars, poolVars, pc, task, mtx, doneCnt, futures,
                   cpc, baseName, entry, log, histVars, spurious>>

\* a timeout branch that logs and goes on to the next future
FinalTimeout_NoBreak ==
    /\ cpc = "final"
    /\ pos < Len(futures)
    /\ futures[pos + 1] = "pending"
    /\ log' = Append(log, [s |-> calls, i |-> pos])
    /\ pc' = NotifyAll(calls)
    /\ pos' = pos + 1
    /\ UNCHANGED <<build, nameVars, poolVars, task, mtx, doneCnt, futures,
                   cpc, baseName, entry, histVars, spurious>>

\* final loop: wait_for returns timeout: LogPrintf, notify_all again, break
FinalTimeout ==
    /\ cpc = "final"
    /\ pos < Len(futures)
    /\ futures[pos + 1] = "pending"
    /\ log' = Append(log, [s |-> calls, i |-> pos])
    /\ pc' = NotifyAll(calls)
    /\ cpc' = "ret"
    /\ UNCHANGED <<build, nameVars, poolVars, task, mtx, doneCnt, futures,
                   pos, baseName, entry, histVars, spurious>>

\* final loop: every future was checked
FinalEnd ==
    /\ cpc = "final"
    /\ pos >= Len(futures)
    /\ cpc' = "ret"
    /\ UNCHANGED <<build, nameVars, poolVars, pc, task, mtx, doneCnt, futures,
                   pos, baseName, entry, log, histVars, spurious>>

\* the closing brace: futures and doneCnt are destroyed, the call returns
Return ==
    /\ cpc = "ret"
    /\ cpc' = "idle"
    /\ futures' = <<>>
    /\ doneCnt' = 0
    /\ pos' = 0
    /\ UNCHANGED <<build, nameVars, poolVars, pc, task, mtx, baseName, entry, log,
                   histVars, spurious>>

CallerNext ==
    \/ \E b \in BaseNames : Enter(b)
    \/ Submit
    \/ SubmitDone
    \/ Sleep
    \/ Check
    \/ Release
    \/ FinalReady
    \/ FinalTimeout
    \/ FinalEnd
    \/ Return

\* ------------------------------------------------------ the pool's workers

\* a worker thread is retired when the pool shrank below its slot
Retired(w) == w >= size

\* the doneCnt of the call that pushed task t still exists
Live(t) == t.s = calls /\ cpc # "idle"

\* a worker of the pool takes the task at the head of the queue
Dequeue(w) ==
    /\ pc[w] = "idle"
    /\ ~Retired(w)
    /\ queue # <<>>
    /\ task' = [task EXCEPT ![w] = Head(queue)]
    /\ queue' = Tail(queue)
    /\ pc' = [pc EXCEPT ![w] = "run"]
    /\ UNCHANGED <<build, nameVars, size, resizes, mtx, callVars, histVars, spurious>>

\* the task a worker was running when the call was made ends
BusyDone(w) ==
    /\ pc[w] = "busy"
    /\ pc' = [pc EXCEPT ![w] = IF Retired(w) THEN "none" ELSE "idle"]
    /\ UNCHANGED <<build, nameVars, poolVars, task, mtx, callVars, histVars, spurious>>

\* util::ThreadRename(strprintf("%s-%d", baseName, i).c_str())
Rename(w) ==
    /\ pc[w] = "run"
    /\ ThreadRename(w, TaskName(baseName[task[w].s], task[w].i, w))
    /\ ran' = [ran EXCEPT ![w] = @ \cup {task[w]}]
    /\ renamed' = renamed \cup {task[w]}
    /\ pc' = [pc EXCEPT ![w] = "renamed"]
    /\ UNCHANGED <<build, poolVars, task, mtx, callVars, spurious>>

\* a task that goes on to the increment without owning the mutex
Lock_NoMutex(w) ==
    /\ pc[w] = "renamed"
    /\ mtx' = [mtx EXCEPT ![task[w].s] = w]
    /\ pc' = [pc EXCEPT ![w] = "locked"]
    /\ UNCHANGED <<build, nameVars, poolVars, task, callVars, histVars, spurious>>

\* std::unique_lock<std::mutex> l(*mutex)
Lock(w) ==
    /\ pc[w] = "renamed"
    /\ mtx[task[w].s] = NoWorker
    /\ mtx' = [mtx EXCEPT ![task[w].s] = w]
    /\ pc' = [pc EXCEPT ![w] = "locked"]
    /\ UNCHANGED <<build, nameVars, poolVars, task, callVars, histVars, spurious>>

\* doneCnt++ through the reference the task captured.  Once the call that
\* pushed the task has returned the reference dangles: the increment lands in
\* the doneCnt of the call in progress (same stack slot) or nowhere visible.
Increment(w) ==
    IF Live(task[w]) THEN {doneCnt + 1}
    ELSE IF cpc # "idle" THEN {doneCnt, doneCnt + 1}
    ELSE {doneCnt}

Inc(w) ==
    /\ pc[w] = "locked"
    /\ doneCnt' \in Increment(w)
    /\ pc' = [pc EXCEPT ![w] = "counted"]
    /\ UNCHANGED <<build, nameVars, poolVars, task, mtx, futures, cpc, pos,
                   baseName, entry, log, histVars, spurious>>

\* cond->wait(l): the mutex is released and the thread blocks, atomically
Wait(w) ==
    /\ pc[w] = "counted"
    /\ mtx' = [mtx EXCEPT ![task[w].s] = NoWorker]
    /\ pc' = [pc EXCEPT ![w] = "waiting"]
    /\ UNCHANGED <<build, nameVars, poolVars, task, callVars, histVars, spurious>>

\* cond->wait(l) has no predicate: a wait may return without a notification
Spurious(w) ==
    /\ pc[w] = "waiting"
    /\ spurious < MaxSpurious
    /\ spurious' = spurious + 1
    /\ pc' = [pc EXCEPT ![w] = "woken"]
    /\ UNCHANGED <<build, nameVars, poolVars, task, mtx, callVars, histVars>>

\* wait() reacquires the mutex and returns, the lambda ends (l unlocks) and
\* the packaged task makes its future ready
Settle(w) ==
    IF Live(task[w]) THEN [futures EXCEPT ![task[w].i + 1] = "ready"]
    ELSE futures

Complete(w) ==
    /\ pc[w] = "woken"
    /\ mtx[task[w].s] = NoWorker
    /\ futures' = Settle(w)
    /\ pc' = [pc EXCEPT ![w] = IF Retired(w) THEN "none" ELSE "idle"]
    /\ UNCHANGED <<build, nameVars, poolVars, task, mtx, doneCnt, cpc, pos,
                   baseName, entry, log, histVars, spurious>>

WorkerNext(w) ==
    \/ Dequeue(w)
    \/ BusyDone(w)
    \/ Rename(w)
    \/ Lock(w)
    \/ Inc(w)
    \/ Wait(w)
    \/ Complete(w)

\* ------------------------------------------------- the pool's size changes

\* the pool gains a worker slot: a new thread, with thread-local defaults
Grow ==
    /\ resizes < MaxResize
    /\ size < MaxPool
    /\ pc[size] = "none"
    /\ size' = size + 1
    /\ resizes' = resizes + 1
    /\ pc' = [pc EXCEPT ![size] = "idle"]
    /\ g_thread_name' = [g_thread_name EXCEPT ![size] = ""]
    /\ osName' = [osName EXCEPT ![size] = ""]
    /\ task' = [task EXCEPT ![size] = NoTask]
    /\ ran' = [ran EXCEPT ![size] = {}]
    /\ named' = named \ {size}
    /\ UNCHANGED <<build, queue, mtx, callVars, spurious, renamed>>

\* tasks dropped from the queue never run; their futures settle
Drop(q) ==
    [j \in 1 .. Len(futures) |->
        IF \E n \in 1 .. Len(q) : q[n] = [s |-> calls, i |-> j - 1] /\ Live(q[n])
        THEN "dropped" ELSE futures[j]]

\* the pool shrinks to m slots; with clear, its queue is cleared as well.
\* Idle threads of the removed slots end at once, the others after the task
\* they are running.
Shrink(m, clear) ==
    /\ resizes < MaxResize
    /\ m < size
    /\ size' = m
    /\ resizes' = resizes + 1
    /\ pc' = [w \in Workers |-> IF w >= m /\ pc[w] = "idle" THEN "none" ELSE pc[w]]
    /\ queue' = IF clear THEN <<>> ELSE queue
    /\ futures' = IF clear THEN Drop(queue) ELSE futures
    /\ UNCHANGED <<build, nameVars, task, mtx, doneCnt, cpc, pos, baseName, entry,
                   log, histVars, spurious>>

PoolNext ==
    \/ Grow
    \/ \E m \in 0 .. (MaxPool - 1), clear \in BOOLEAN : Shrink(m, clear)

Next ==
    \/ CallerNext
    \/ \E w \in Workers : WorkerNext(w)
    \/ \E w \in Workers : Spurious(w)
    \/ PoolNext

Spec == Init /\ [][Next]_vars

\* The calling thread and every worker thread keep being scheduled.  Nothing
\* obliges the pool to change size or a wait to return unnotified.
Fairness ==
    /\ WF_vars(CallerNext)
    /\ \A w \in Workers : WF_vars(WorkerNext(w))

FairSpec == Spec /\ Fairness

\* As FairSpec, but the worker of slot 0 may stop at any point of its work.
StuckSpec ==
    /\ Spec
    /\ WF_vars(CallerNext)
    /\ \A w \in Workers \ {0} : WF_vars(WorkerNext(w))

\* ------------------------------------------- direct use of the naming API

\* threads that exist: the caller and the pool's worker threads
Exists(t) == IF t = Caller THEN TRUE ELSE pc[t] # "none"

\* some thread calls util::ThreadRename(name) on itself
CallThreadRename(t, n) ==
    /\ Exists(t)
    /\ ThreadRename(t, n)
    /\ UNCHANGED <<build, poolVars, pc, task, mtx, callVars, histVars, spurious>>

\* some thread calls util::ThreadSetInternalName(name) on itself
CallThreadSetInternalName(t, n) ==
    /\ Exists(t)
    /\ ThreadSetInternalName(t, n)
    /\ UNCHANGED <<build, poolVars, pc, task, mtx, callVars, histVars, spurious>>

NameInit == build \in Builds /\ InitRest

NameNext ==
    \E t \in Threads, n \in Names :
        \/ CallThreadRename(t, n)
        \/ CallThreadSetInternalName(t, n)

\* every build configuration, threads naming themselves in any order
NameSpec == NameInit /\ [][NameNext]_vars

\* ================================================================= claims

\* the call number s logged a timeout warning
Warned(s) == \E n \in 1 .. Len(log) : log[n].s = s
\* worker w executed the ThreadRename of a task of call s
RanIn(w, s) == \E t \in ran[w] : t.s = s
\* call s has issued its release broadcast
Released(s) == s < calls \/ (s = calls /\ cpc \in {"final", "ret", "idle"})
\* call s has returned
HasReturned(s) == s < calls \/ (s = calls /\ cpc = "idle")
\* the last call made has returned and no other is in progress
Returned == calls >= 1 /\ cpc = "idle"
\* the string "<base>-<i>"
Formatted(base, i) == base \o "-" \o ToString(i)
\* the workers of the pool
InPool == {w \in Workers : w < size}

\* C1: when RenameThreadPool returns without having logged a timeout warning,
\* every worker thread of the pool has executed a ThreadRename of this call.
\* Stated here for the executions in which the pool's size never changes.
C1_EveryWorkerRenamed ==
    (cpc = "ret" /\ resizes = 0) =>
        (Warned(calls) \/ \A w \in InPool : RanIn(w, calls))

\* C2 (as claimed): after RenameThreadPool returns, every worker that executed
\* a rename task of the call is named "<baseName>-<its own slot index>".
\* Stated here for a pool whose size never changes.
C2_NamedBySlotIndex ==
    (Returned /\ resizes = 0) =>
        \A w \in InPool :
            RanIn(w, calls) =>
                ThreadGetInternalName(w) = Formatted(baseName[calls], w)

\* C2 (amended): after RenameThreadPool returns, every worker that executed a
\* rename task is named "<baseName>-<i>" for the base name and index i of the
\* task it executed last (a worker that has just dequeued another rename task
\* still holds the name of one it executed).
C2_NamedByTaskIndex ==
    Returned =>
        \A w \in Workers :
            ran[w] # {} =>
                IF pc[w] = "run"
                THEN ThreadGetInternalName(w) \in
                        {Formatted(baseName[t.s], t.i) : t \in ran[w]}
                ELSE ThreadGetInternalName(w) =
                        Formatted(baseName[task[w].s], task[w].i)

\* a worker ran the task of another slot's index and carries that index
C2_Witness ==
    /\ Returned
    /\ \E w \in InPool :
        /\ RanIn(w, calls)
        /\ pc[w] = "idle"
        /\ task[w].i # w
        /\ ThreadGetInternalName(w) = Formatted(baseName[calls], task[w].i)

\* C3: RenameThreadPool eventually returns even when one worker (the one of
\* slot 0) never reaches the parked state.  Checked under StuckSpec.
C3_ReturnsDespiteStuckWorker == (cpc = "submit") ~> (cpc = "idle")

\* C4: when the pool's size never changes and every worker and the caller keep
\* running, every call of RenameThreadPool eventually returns.  Checked under
\* FairSpec.
C4_EveryCallReturns ==
    [](resizes = 0) => [](cpc # "idle" => <>(cpc = "idle"))

\* C5: a call whose poll loop runs on a pool that shrank below the number of
\* submitted tasks does not hang: it eventually returns.  Checked under
\* FairSpec, for the first call made on the pool.
C5_ShrinkDoesNotHang ==
    (calls = 1 /\ cpc \in {"sleep", "check"} /\ Len(futures) > size)
        ~> (cpc = "idle")

\* C6: no rename task performs its ThreadRename after the call that pushed it
\* has issued its release broadcast.
C6_NoRenameAfterRelease ==
    [][\A w \in Workers :
          (pc[w] = "run" /\ pc'[w] = "renamed") => ~Released(task[w].s)]_vars

\* C7: once RenameThreadPool has returned, no worker is blocked on that call's
\* condition variable.
C7_NoWorkerLeftParked ==
    \A w \in Workers : pc[w] = "waiting" => ~HasReturned(task[w].s)

\* C8: after two calls in succession with different base names A then B, on a
\* pool whose size did not change, every worker of the pool is named "B-i" for
\* some i.
C8_SecondCallWins ==
    (Returned /\ calls = 2 /\ resizes = 0 /\ baseName[1] # baseName[2]) =>
        \A w \in InPool :
            \E i \in Workers : ThreadGetInternalName(w) = Formatted(baseName[2], i)

\* C9: after RenameThreadPool returns on a pool of K workers whose size did not
\* change, each of the names baseName-0 .. baseName-(K-1) is held by exactly
\* one worker.
C9_DistinctNames ==
    (Returned /\ resizes = 0) =>
        \A i \in InPool :
            Cardinality({w \in InPool :
                ThreadGetInternalName(w) = Formatted(baseName[calls], i)}) = 1

\* C10 (as claimed): right after ThreadRename(name) or
\* ThreadSetInternalName(name) on a thread, ThreadGetInternalName() on that
\* thread is exactly name.  Checked under NameSpec.
C10_GetReturnsName ==
    [][\A t \in Threads, n \in Names :
          (CallThreadRename(t, n) \/ CallThreadSetInternalName(t, n))
              => ThreadGetInternalName(t)' = n]_vars

\* C10 (amended): in a build with HAVE_THREAD_LOCAL it is exactly name,
\* whatever its length; in a build without, it is the empty string.
C10_GetReturnsNameIfThreadLocal ==
    [][\A t \in Threads, n \in Names :
          (CallThreadRename(t, n) \/ CallThreadSetInternalName(t, n))
              => ThreadGetInternalName(t)' = (IF build.tl THEN n ELSE "")]_vars

\* a thread holds an internal name longer than its truncated process-level name
C10_Witness ==
    \E t \in Threads :
        /\ Len(ThreadGetInternalName(t)) > OsNameMax
        /\ Len(osName[t]) = OsNameMax
        /\ osName[t] # ThreadGetInternalName(t)

\* C11: internal names are per thread.  A ThreadRename or
\* ThreadSetInternalName call by one thread leaves what
\* ThreadGetInternalName() returns on every other thread unchanged, and a
\* thread that has never set its name reads the empty string.  Checked
\* under NameSpec.
C11_NamesArePerThread ==
    /\ \A u \in Threads \ named : ThreadGetInternalName(u) = ""
    /\ [][/\ \A t \in Threads, n \in Names :
               (CallThreadRename(t, n) \/ CallThreadSetInternalName(t, n))
                   => \A u \in Threads \ {t} :
                          ThreadGetInternalName(u)' = ThreadGetInternalName(u)
           /\ \A v \in Threads \ named' : ThreadGetInternalName(v)' = ""]_vars

\* two threads hold different names of their own and a third never set one
C11_Witness ==
    \E a, b \in named, c \in Threads \ named :
        /\ ThreadGetInternalName(a) # ""
        /\ ThreadGetInternalName(b) # ""
        /\ ThreadGetInternalName(a) # ThreadGetInternalName(b)
        /\ ThreadGetInternalName(c) = ""

\* C12 (as claimed): the poll loop keeps polling until both bounds are met;
\* it is left only in a state where doneCnt is at least the number of
\* submitted tasks and at least the pool's current size.
C12_ExitsOnBothBounds ==
    [][(cpc = "check" /\ cpc' = "notify")
          => (doneCnt >= Len(futures) /\ doneCnt >= size)]_vars

\* C12 (amended): the poll loop is left only in a state where doneCnt is at
\* least the smaller of the two bounds, the number of submitted tasks and
\* the pool's current size.
C12_ExitsOnSmallerBound ==
    [][(cpc = "check" /\ cpc' = "notify")
          => (doneCnt >= Len(futures) \/ doneCnt >= size)]_vars

\* the loop was left with as many tasks counted as the pool has slots, and
\* fewer than were submitted
C12_Witness ==
    /\ cpc = "notify"
    /\ doneCnt > 0
    /\ doneCnt >= size
    /\ doneCnt < Len(futures)

\* C13: a rename task that parked stays parked until the caller issues the
\* release broadcast of its call: no task leaves the wait, and none
\* completes, before that broadcast, also when the condition variable lets
\* a wait return without a notification.
C13_ParkedUntilRelease ==
    /\ \A w \in Workers : pc[w] = "woken" => Released(task[w].s)
    /\ \A j \in 1 .. Len(futures) :
           (cpc # "idle" /\ futures[j] = "ready") => Released(calls)

\* C14: in every state of a call, the done count is at most the number of
\* rename tasks of that call whose ThreadRename has completed.
C14_DoneCntCountsRenames ==
    cpc # "idle" =>
        doneCnt <= Cardinality({t \in renamed : t.s = calls})

\* C15 (as claimed): the call takes the pool's size N once, at entry, and
\* submits exactly N tasks, also when the size changes during the
\* submission loop.
C15_SubmitsEntrySize ==
    (cpc \notin {"idle", "submit"}) => Len(futures) = entry.size

\* C15 (amended): the pool's size is read again before every submission.
\* The task with the next index 0, 1, 2, ... is submitted only while that
\* index is below the pool's current size, the loop ends at the first index
\* that is not, and the number submitted is the size at entry when the size
\* did not change during the loop.
C15_SubmitsWhileBelowSize ==
    [][/\ (cpc = "submit" /\ Len(futures') = Len(futures) + 1)
            => /\ Len(futures) < size
               /\ queue' = Append(queue, [s |-> calls, i |-> Len(futures)])
       /\ (cpc = "submit" /\ cpc' = "sleep")
            => /\ Len(futures) >= size
               /\ resizes = entry.resizes => Len(futures) = entry.size]_vars

\* the pool grew during the submission loop and a task was submitted for
\* the new slot as well
C15_Witness ==
    /\ cpc = "sleep"
    /\ Len(futures) > entry.size
    /\ entry.size > 0
    /\ Len(futures) = size

\* C16: the state of a call is fully consumed before RenameThreadPool
\* returns: once a call has returned, none of its rename tasks is still
\* running on a worker, so none reads or writes that call's done counter.
C16_NoTaskOutlivesCall ==
    \A s \in Sessions :
        HasReturned(s) =>
            \A w \in Workers :
                task[w].s = s =>
                    pc[w] \notin {"run", "renamed", "locked", "counted",
                                  "waiting", "woken"}

\* C17: the final loop checks the futures in increasing index order.  A
\* warning is logged only for the first future that times out, naming the
\* call's baseName and that index; the broadcast is issued again and no
\* further future is checked.  At most one warning is logged per call.
C17_OneWarningThenStop ==
    [][/\ (cpc = "final" /\ pos' # pos) => pos' = pos + 1
       /\ Len(log') > Len(log)
            => /\ cpc = "final"
               /\ log' = Append(log, [s |-> calls, i |-> pos])
               /\ futures[pos + 1] = "pending"
               /\ \A j \in 1 .. pos : futures[j] # "pending"
               /\ pc' = NotifyAll(calls)
               /\ cpc' = "ret"
       /\ \A s \in Sessions :
              Cardinality({n \in 1 .. Len(log') : log'[n].s = s}) <= 1]_vars

\* the first future timed out and was logged, and the second, still
\* pending, was not checked
C17_Witness ==
    /\ cpc = "ret"
    /\ Len(futures) = 2
    /\ pos = 0
    /\ futures[2] = "pending"
    /\ log[Len(log)] = [s |-> calls, i |-> 0]

\* C18: when a call reaches its return without having logged a timeout
\* warning, every task it submitted has settled: none is still queued,
\* running or parked, each has run to completion or was dropped.
C18_SilentReturnAllSettled ==
    (cpc = "ret" /\ ~Warned(calls)) =>
        /\ \A j \in 1 .. Len(futures) : futures[j] \in {"ready", "dropped"}
        /\ \A n \in 1 .. Len(queue) : queue[n].s # calls
        /\ \A w \in Workers :
               task[w].s = calls =>
                   pc[w] \notin {"run", "renamed", "locked", "counted",
                                 "waiting", "woken"}

\* a call of two tasks is about to return without a warning
C18_Witness ==
    /\ cpc = "ret"
    /\ ~Warned(calls)
    /\ Len(futures) = 2
    /\ futures[1] = "ready"

\* the workers running a task of call s that hold or have counted under the
\* call's mutex and have not entered the wait yet
InWindow(s) ==
    {w \in Workers : task[w].s = s /\ pc[w] \in {"locked", "counted"}}

\* C19: doneCnt is incremented only by the task that holds the call's
\* mutex, and that task keeps the mutex until it enters the wait, so at most
\* one task of a call is counted but not yet waiting.  The first release
\* broadcast wakes every counted worker of the call that is waiting and is
\* missed by at most one counted worker; in a pool whose size did not
\* change no other task of the call is still to park.
C19_OneCountedNotWaiting ==
    [][/\ \A s \in Sessions :
              /\ Cardinality(InWindow(s)') <= 1
              /\ \A w \in InWindow(s)' : mtx'[s] = w
       /\ \A w \in Workers :
              (pc[w] = "locked" /\ pc'[w] = "counted") => mtx[task[w].s] = w
       /\ (cpc = "notify" /\ cpc' = "final")
            => /\ \A w \in Workers :
                      (task[w].s = calls /\ pc[w] = "waiting")
                          => pc'[w] = "woken"
               /\ Cardinality({w \in Workers :
                      task[w].s = calls /\ pc'[w] = "counted"}) <= 1
               /\ resizes = 0 =>
                      /\ \A n \in 1 .. Len(queue) : queue[n].s # calls
                      /\ \A w \in Workers :
                             task[w].s = calls
                                 => pc'[w] \notin {"run", "renamed", "locked"}]_vars

\* the release broadcast was issued while one counted worker had not yet
\* entered the wait, and it woke the other
C19_Witness ==
    /\ cpc = "final"
    /\ spurious = 0
    /\ resizes = 0
    /\ \E a, b \in Workers :
           /\ task[a].s = calls /\ pc[a] = "counted"
           /\ task[b].s = calls /\ pc[b] = "woken"

====
